---- MODULE Spec2Model ----
(***************************************************************************)
(* A model of the reference-counted shared_ptr / weak_ptr of               *)
(* src/shared-ptr.h and src/shared-ptr.cpp.                                *)
(*                                                                         *)
(* The heap holds control blocks (ptr_block or obj_block); the program's   *)
(* handle variables are slots that are either not constructed (dead) or    *)
(* hold a (cb, ptr) pair.  Every public operation of the two handle types  *)
(* is one action, built from operators that follow the member functions.   *)
(***************************************************************************)
EXTENDS Integers, FiniteSets, Sequences, TLC

\* ---------------------------------------------------------------- bounds
NumShared == 2      \* shared_ptr variables of the client program
NumWeak == 2        \* weak_ptr variables of the client program
MaxBlocks == 2      \* control blocks (and payload objects) ever requested

\* ------------------------------------------------------------- constants
NULL == 0           \* nullptr, for control-block and payload pointers alike
SIZE_BITS == 16     \* width of size_t (the narrowest the language allows)

Blocks == 1..MaxBlocks
SharedSlots == 1..NumShared
WeakSlots == 1..NumWeak
\* The payload managed by block b lives at address b; AliasAddr is some other
\* address (a sub-object, say) a client may hand to the aliasing constructor.
PayloadAddr(b) == b
AliasAddr == MaxBlocks + 1
Ptrs == 0..AliasAddr
SizeT(x) == x % (2 ^ SIZE_BITS)

VARIABLES
  strong_cnt,    \* control_block::strong_cnt, per block
  weak_cnt,      \* control_block::weak_cnt, per block
  bstate,        \* "unalloc" | "alloc" | "freed"
  kind,          \* "none" | "ptr" (ptr_block) | "obj" (obj_block)
  bptr,          \* ptr_block::ptr
  deleted,       \* history: number of delete_data() calls on the block
  freed,         \* history: number of `delete this` on the block
  freed_after,   \* history: the value of `deleted` when the block was freed
  deleter_args,  \* history: the arguments the block's stored deleter was invoked with
  wrapped,       \* history: some counter was decremented while it was 0
  running,       \* the delete_data() call in progress, if any: [b, s, obs0]
  sp,            \* the shared_ptr variables: [live, cb, ptr]
  wp,            \* the weak_ptr variables: [live, cb, ptr]
  last           \* history: the operation performed last, when it is a traced one

heapvars == <<strong_cnt, weak_cnt, bstate, kind, bptr, deleted, freed, freed_after, deleter_args, wrapped>>
vars == <<strong_cnt, weak_cnt, bstate, kind, bptr, deleted, freed, freed_after, deleter_args, wrapped,
          running, sp, wp, last>>

\* The heap as one value, so that member functions compose.
Heap ==
  [strong_cnt |-> strong_cnt, weak_cnt |-> weak_cnt, bstate |-> bstate,
   kind |-> kind, bptr |-> bptr, deleted |-> deleted, freed |-> freed,
   freed_after |-> freed_after,
   deleter_args |-> deleter_args, wrapped |-> wrapped]

SetHeap(h) ==
  /\ strong_cnt' = h.strong_cnt
  /\ weak_cnt' = h.weak_cnt
  /\ bstate' = h.bstate
  /\ kind' = h.kind
  /\ bptr' = h.bptr
  /\ deleted' = h.deleted
  /\ freed' = h.freed
  /\ freed_after' = h.freed_after
  /\ deleter_args' = h.deleter_args
  /\ wrapped' = h.wrapped

\* ------------------------------------------------------- control_block
get_strong(h, b) == h.strong_cnt[b]

inc_strong_only(h, b) == [h EXCEPT !.strong_cnt[b] = SizeT(@ + 1)]

inc_strong(h, b) ==
  [h EXCEPT !.strong_cnt[b] = SizeT(@ + 1), !.weak_cnt[b] = SizeT(@ + 1)]

inc_weak(h, b) == [h EXCEPT !.weak_cnt[b] = SizeT(@ + 1)]

\* `delete this` through the virtual destructor
delete_this(h, b) ==
  [h EXCEPT !.bstate[b] = "freed", !.freed[b] = @ + 1,
            !.freed_after[b] = h.deleted[b]]

dec_weak(h, b) ==
  LET h1 == [h EXCEPT !.weak_cnt[b] = SizeT(@ - 1),
                      !.wrapped = @ \/ h.weak_cnt[b] = 0]
  IN  IF h1.weak_cnt[b] = 0 THEN delete_this(h1, b) ELSE h1

\* ptr_block::delete_data: the deleter on the stored pointer, then null it
\* A delete_data that left the stored pointer in place.
ptr_delete_data_keeps_ptr(h, b) ==
  [h EXCEPT !.deleter_args[b] = Append(@, h.bptr[b]),
            !.deleted[b] = @ + 1]

ptr_delete_data(h, b) ==
  [h EXCEPT !.deleter_args[b] = Append(@, h.bptr[b]),
            !.deleted[b] = @ + 1,
            !.bptr[b] = NULL]

\* obj_block::delete_data: the payload's destructor, in place
obj_delete_data(h, b) == [h EXCEPT !.deleted[b] = @ + 1]

delete_data(h, b) ==
  IF h.kind[b] = "ptr" THEN ptr_delete_data(h, b) ELSE obj_delete_data(h, b)

dec_strong_no_delete(h, b) ==
  dec_weak([h EXCEPT !.strong_cnt[b] = SizeT(@ - 1)], b)

dec_strong_frees_first(h, b) ==
  LET h1 == dec_weak([h EXCEPT !.strong_cnt[b] = SizeT(@ - 1)], b)
  IN  IF h1.strong_cnt[b] = 0 THEN delete_data(h1, b) ELSE h1

dec_strong(h, b) ==
  LET h1 == [h EXCEPT !.strong_cnt[b] = SizeT(@ - 1),
                      !.wrapped = @ \/ h.strong_cnt[b] = 0]
      h2 == IF h1.strong_cnt[b] = 0 THEN delete_data(h1, b) ELSE h1
  IN  dec_weak(h2, b)

\* dec_strong in two steps, for a payload destructor that calls back into
\* the handles.  Entry: the decrement that reaches 0 and the call of
\* delete_data(); the counters are read by whatever the destructor calls.
\* A dec_strong that gave up its weak share before destroying the payload.
dec_strong_enter_frees_first(h, b) ==
  dec_weak([h EXCEPT !.strong_cnt[b] = SizeT(@ - 1),
                     !.wrapped = @ \/ h.strong_cnt[b] = 0], b)

dec_strong_enter(h, b) ==
  [h EXCEPT !.strong_cnt[b] = SizeT(@ - 1),
            !.wrapped = @ \/ h.strong_cnt[b] = 0]

\* Return: delete_data() completes, then dec_weak().
dec_strong_leave(h, b) == dec_weak(delete_data(h, b), b)

\* ------------------------------------------------ block construction
\* `new` hands out the lowest block not requested before.
HasFreeBlock(h) == \E b \in Blocks : h.bstate[b] = "unalloc"
NextBlock(h) == CHOOSE b \in Blocks :
  /\ h.bstate[b] = "unalloc"
  /\ \A c \in Blocks : h.bstate[c] = "unalloc" => b <= c

\* ptr_block::ptr_block(ptr_, deleter): the base's counters start at 0, the
\* body registers one strong reference.
\* A ptr_block constructor that forgot inc_strong().
new_ptr_block_unregistered(h, b, p) ==
  [h EXCEPT !.bstate[b] = "alloc", !.kind[b] = "ptr", !.bptr[b] = p,
            !.strong_cnt[b] = 0, !.weak_cnt[b] = 0]

new_ptr_block(h, b, p) ==
  inc_strong([h EXCEPT !.bstate[b] = "alloc", !.kind[b] = "ptr", !.bptr[b] = p,
                       !.strong_cnt[b] = 0, !.weak_cnt[b] = 0], b)

\* An obj_block constructor that registered a strong reference as
\* ptr_block's does, with make_shared unchanged.
new_obj_block_registers(h, b) ==
  inc_strong([h EXCEPT !.bstate[b] = "alloc", !.kind[b] = "obj",
                       !.strong_cnt[b] = 0, !.weak_cnt[b] = 0], b)

\* obj_block::obj_block(args...): constructs the payload in place, and
\* registers nothing.
new_obj_block(h, b) ==
  [h EXCEPT !.bstate[b] = "alloc", !.kind[b] = "obj",
            !.strong_cnt[b] = 0, !.weak_cnt[b] = 0]

ptr_block_get(h, b) == h.bptr[b]
obj_block_get(h, b) == PayloadAddr(b)

\* ---------------------------------------------------------- shared_ptr
\* A handle value is [cb, ptr]; a slot adds `live`.
Handle(c, p) == [cb |-> c, ptr |-> p]
EmptyHandle == Handle(NULL, NULL)
Live(x) == [live |-> TRUE, cb |-> x.cb, ptr |-> x.ptr]
Dead == [live |-> FALSE, cb |-> NULL, ptr |-> NULL]
Val(slot) == Handle(slot.cb, slot.ptr)

shared_get(x) == x.ptr
shared_bool(x) == shared_get(x) # NULL
shared_eq(x, y) == x.ptr = y.ptr
shared_ne(x, y) == x.ptr # y.ptr

use_count(h, x) == IF x.cb # NULL THEN get_strong(h, x.cb) ELSE 0

shared_nullify(x) == EmptyHandle

shared_safe_inc(h, x) == IF x.cb # NULL THEN inc_strong(h, x.cb) ELSE h

\* shared_ptr(): both members default to nullptr
shared_default == EmptyHandle

\* shared_ptr(Y* ptr_, D&& deleter), the path on which `new` succeeds
shared_from_raw(h, b, p) ==
  LET h1 == new_ptr_block(h, b, p)
  IN  [heap |-> h1, self |-> Handle(b, ptr_block_get(h1, b)), cleaned |-> <<>>]

\* shared_ptr(Y* ptr_, D&& deleter), the path on which `new` throws: the
\* catch clause runs the deleter on ptr_ and rethrows; no object comes to be.
\* A catch clause that rethrew without running the deleter.
shared_from_raw_throw_leaks(h, p) == [heap |-> h, cleaned |-> <<>>]

shared_from_raw_throw(h, p) == [heap |-> h, cleaned |-> <<p>>]

shared_copy_ctor_no_inc(h, other) ==
  [heap |-> h, self |-> Handle(other.cb, other.ptr)]

\* shared_ptr(const shared_ptr& other)
shared_copy_ctor(h, other) ==
  LET self == Handle(other.cb, other.ptr)
  IN  [heap |-> shared_safe_inc(h, self), self |-> self]

shared_move_ctor_keeps_source(h, other) ==
  [heap |-> h, self |-> Handle(other.cb, other.ptr), other |-> other]

\* shared_ptr(shared_ptr&& other)
shared_move_ctor(h, other) ==
  [heap |-> h, self |-> Handle(other.cb, other.ptr), other |-> shared_nullify(other)]

shared_alias_ctor_no_inc(h, p, q) == [heap |-> h, self |-> Handle(p.cb, q)]

\* template <Y> shared_ptr(const shared_ptr<Y>& p, T* ptr_)
shared_alias_ctor(h, p, q) ==
  LET self == Handle(p.cb, q)
  IN  [heap |-> shared_safe_inc(h, self), self |-> self]

\* template <Y> shared_ptr(const shared_ptr<Y>& p) : shared_ptr(p, p.get())
shared_convert_ctor(h, p) == shared_alias_ctor(h, p, shared_get(p))

\* shared_ptr(control_block* cb_, T* ptr_), private
shared_private_ctor(h, c, q) ==
  LET self == Handle(c, q)
  IN  [heap |-> shared_safe_inc(h, self), self |-> self]

\* void reset()
\* A reset() that released the reference but kept the handle's fields.
shared_reset_keeps_handle(h, self) ==
  [heap |-> IF self.cb # NULL THEN dec_strong(h, self.cb) ELSE h,
   self |-> self]

shared_reset(h, self) ==
  [heap |-> IF self.cb # NULL THEN dec_strong(h, self.cb) ELSE h,
   self |-> shared_nullify(self)]

\* ~shared_ptr()
shared_dtor(h, self) == shared_reset(h, self).heap

\* void swap(shared_ptr& other)
shared_swap(self, other) == [self |-> other, other |-> self]

\* operator=(const shared_ptr& other): a temporary copy, swap, and the
\* temporary's destructor releases what *this held.
shared_copy_assign(h, self, other) ==
  LET tmp == shared_copy_ctor(h, other)
      sw == shared_swap(self, tmp.self)
  IN  [heap |-> shared_dtor(tmp.heap, sw.other), self |-> sw.self]

shared_move_assign_release_first(h, self, other, same) ==
  LET r == shared_reset(h, self)
      src == IF same THEN r.self ELSE other
  IN  [heap |-> r.heap, self |-> Handle(src.cb, src.ptr), other |-> EmptyHandle]

\* operator=(shared_ptr&& other): a temporary moved from other, swap, and the
\* temporary's destructor.  `same` says that other is *this (one object): the
\* move then empties *this before the swap.
shared_move_assign(h, self, other, same) ==
  LET tmp == shared_move_ctor(h, other)
      self1 == IF same THEN tmp.other ELSE self
      sw == shared_swap(self1, tmp.self)
  IN  [heap |-> shared_dtor(tmp.heap, sw.other), self |-> sw.self, other |-> tmp.other]

\* self.reset(p, deleter):  *this = std::move(shared_ptr<Y>(p, deleter));
\* the temporary is constructed first, move-assigned, and then destroyed.
shared_reset_ptr(h, self, b, p) ==
  LET t == shared_from_raw(h, b, p)
      r == shared_move_assign(t.heap, self, t.self, FALSE)
  IN  [heap |-> shared_dtor(r.heap, r.other), self |-> r.self, cleaned |-> t.cleaned]

\* A reset(p, deleter) that released the old reference before building the
\* new block.
shared_reset_ptr_throw_releases_first(h, self, p) ==
  LET r == shared_reset(h, self)
      t == shared_from_raw_throw(r.heap, p)
  IN  [heap |-> t.heap, self |-> r.self, cleaned |-> t.cleaned]

\* self.reset(p, deleter) whose temporary fails to construct: the exception
\* leaves the full expression before the move assignment is evaluated.
shared_reset_ptr_throw(h, self, p) ==
  LET t == shared_from_raw_throw(h, p)
  IN  [heap |-> t.heap, self |-> self, cleaned |-> t.cleaned]

\* make_shared<T>(args...)
make_shared(h, b) ==
  LET h1 == new_obj_block(h, b)
  IN  shared_private_ctor(h1, b, obj_block_get(h1, b))

\* ------------------------------------------------------------ weak_ptr
weak_safe_inc(h, x) == IF x.cb # NULL THEN inc_weak(h, x.cb) ELSE h

weak_default == EmptyHandle

weak_from_shared_counts_strong(h, other) ==
  LET self == Handle(other.cb, other.ptr)
  IN  [heap |-> shared_safe_inc(h, self), self |-> self]

\* weak_ptr(const shared_ptr<T>& other)
weak_from_shared(h, other) ==
  LET self == Handle(other.cb, other.ptr)
  IN  [heap |-> weak_safe_inc(h, self), self |-> self]

\* weak_ptr(const weak_ptr<T>& other)
\* A weak copy that registered itself as an owner.
weak_copy_ctor_counts_strong(h, other) ==
  [heap |-> IF other.cb # NULL THEN inc_strong(h, other.cb) ELSE h,
   self |-> Handle(other.cb, other.ptr)]

weak_copy_ctor(h, other) ==
  LET self == Handle(other.cb, other.ptr)
  IN  [heap |-> weak_safe_inc(h, self), self |-> self]

\* weak_ptr(weak_ptr<T>&& other)
\* A weak move constructor that left the source holding the block.
weak_move_ctor_keeps_source(h, other) ==
  [heap |-> h, self |-> Handle(other.cb, other.ptr), other |-> other]

weak_move_ctor(h, other) ==
  [heap |-> h, self |-> Handle(other.cb, other.ptr), other |-> EmptyHandle]

\* ~weak_ptr()
weak_dtor(h, self) == IF self.cb # NULL THEN dec_weak(h, self.cb) ELSE h

\* void swap(weak_ptr& other)
weak_swap(self, other) == [self |-> other, other |-> self]

\* operator=(weak_ptr<T>&& other)
weak_move_assign(h, self, other, same) ==
  LET tmp == weak_move_ctor(h, other)
      self1 == IF same THEN tmp.other ELSE self
      sw == weak_swap(self1, tmp.self)
  IN  [heap |-> weak_dtor(tmp.heap, sw.other), self |-> sw.self, other |-> tmp.other]

\* operator=(const weak_ptr<T>& other)
weak_copy_assign(h, self, other) ==
  LET tmp == weak_copy_ctor(h, other)
      sw == weak_swap(self, tmp.self)
  IN  [heap |-> weak_dtor(tmp.heap, sw.other), self |-> sw.self]

\* operator=(const shared_ptr<T>& other)
weak_assign_shared(h, self, other) ==
  LET tmp == weak_from_shared(h, other)
      sw == weak_swap(self, tmp.self)
  IN  [heap |-> weak_dtor(tmp.heap, sw.other), self |-> sw.self]

weak_lock_unchecked(h, self) ==
  IF self.cb # NULL
    THEN shared_private_ctor(h, self.cb, self.ptr)
    ELSE [heap |-> h, self |-> EmptyHandle]

\* shared_ptr<T> lock() const
weak_lock(h, self) ==
  IF self.cb # NULL /\ get_strong(h, self.cb) # 0
    THEN shared_private_ctor(h, self.cb, self.ptr)
    ELSE [heap |-> h, self |-> EmptyHandle]

\* ------------------------------------------------------------- program
\* `last` records the operation just performed when its name is in the traced
\* set T: its operands, and the pointers its catch clause handed to a deleter.
NoOp == [op |-> "none", dst |-> 0, src |-> 0, arg |-> 0, cleaned |-> <<>>]
Log(T, name, d, s, q, c) ==
  IF name \in T THEN [op |-> name, dst |-> d, src |-> s, arg |-> q, cleaned |-> c]
  ELSE NoOp

\* No delete_data() call is in progress.
NoRun == [b |-> NULL, s |-> 0, obs0 |-> 0]

Init ==
  /\ strong_cnt = [b \in Blocks |-> 0]
  /\ weak_cnt = [b \in Blocks |-> 0]
  /\ bstate = [b \in Blocks |-> "unalloc"]
  /\ kind = [b \in Blocks |-> "none"]
  /\ bptr = [b \in Blocks |-> NULL]
  /\ deleted = [b \in Blocks |-> 0]
  /\ freed = [b \in Blocks |-> 0]
  /\ freed_after = [b \in Blocks |-> 0]
  /\ deleter_args = [b \in Blocks |-> <<>>]
  /\ wrapped = FALSE
  /\ running = NoRun
  /\ sp = [s \in SharedSlots |-> Dead]
  /\ wp = [w \in WeakSlots |-> Dead]
  /\ last = NoOp

\* shared_ptr<T> s;  shared_ptr<T> s(nullptr);
SharedDefaultCtor(s, T) ==
  /\ ~sp[s].live
  /\ sp' = [sp EXCEPT ![s] = Live(shared_default)]
  /\ last' = Log(T, "shared_default", s, 0, 0, <<>>)
  /\ UNCHANGED running
  /\ UNCHANGED <<heapvars, wp>>

\* shared_ptr<T> s(p [, deleter]);  p is a freshly made object (non-null, as the
\* Pointer Block's contract asks)
SharedFromRaw(s, p, T) ==
  /\ ~sp[s].live
  /\ HasFreeBlock(Heap)
  /\ p = PayloadAddr(NextBlock(Heap))
  /\ LET r == shared_from_raw(Heap, NextBlock(Heap), p)
     IN  /\ SetHeap(r.heap)
         /\ sp' = [sp EXCEPT ![s] = Live(r.self)]
         /\ last' = Log(T, "shared_from_raw", s, 0, p, r.cleaned)
  /\ UNCHANGED running
  /\ UNCHANGED wp

\* shared_ptr<T> s(p [, deleter]);  with `new ptr_block` throwing
SharedFromRawThrow(s, p, T) ==
  /\ ~sp[s].live
  /\ HasFreeBlock(Heap)
  /\ p = PayloadAddr(NextBlock(Heap))
  /\ LET r == shared_from_raw_throw(Heap, p)
     IN  /\ SetHeap(r.heap)
         /\ last' = Log(T, "shared_from_raw_throw", s, 0, p, r.cleaned)
         /\ UNCHANGED running
  /\ UNCHANGED <<sp, wp>>

\* auto s = make_shared<T>(args...);
MakeShared(s, T) ==
  /\ ~sp[s].live
  /\ HasFreeBlock(Heap)
  /\ LET r == make_shared(Heap, NextBlock(Heap))
     IN  /\ SetHeap(r.heap)
         /\ sp' = [sp EXCEPT ![s] = Live(r.self)]
  /\ last' = Log(T, "make_shared", s, 0, 0, <<>>)
  /\ UNCHANGED running
  /\ UNCHANGED wp

\* shared_ptr<T> s(o);
SharedCopyCtor(s, o, T) ==
  /\ ~sp[s].live /\ sp[o].live
  /\ LET r == shared_copy_ctor(Heap, Val(sp[o]))
     IN  /\ SetHeap(r.heap)
         /\ sp' = [sp EXCEPT ![s] = Live(r.self)]
  /\ last' = Log(T, "shared_copy", s, o, 0, <<>>)
  /\ UNCHANGED running
  /\ UNCHANGED wp

\* shared_ptr<T> s(std::move(o));
SharedMoveCtor(s, o, T) ==
  /\ ~sp[s].live /\ sp[o].live
  /\ LET r == shared_move_ctor(Heap, Val(sp[o]))
     IN  /\ SetHeap(r.heap)
         /\ sp' = [sp EXCEPT ![s] = Live(r.self), ![o] = Live(r.other)]
  /\ last' = Log(T, "shared_move", s, o, 0, <<>>)
  /\ UNCHANGED running
  /\ UNCHANGED wp

\* shared_ptr<T> s(o, q);
SharedAliasCtor(s, o, q, T) ==
  /\ ~sp[s].live /\ sp[o].live
  /\ q \in {NULL, AliasAddr}
  /\ LET r == shared_alias_ctor(Heap, Val(sp[o]), q)
     IN  /\ SetHeap(r.heap)
         /\ sp' = [sp EXCEPT ![s] = Live(r.self)]
  /\ last' = Log(T, "shared_alias", s, o, q, <<>>)
  /\ UNCHANGED running
  /\ UNCHANGED wp

\* shared_ptr<T> s(o);  with o a shared_ptr<Y>
SharedConvertCtor(s, o, T) ==
  /\ ~sp[s].live /\ sp[o].live
  /\ LET r == shared_convert_ctor(Heap, Val(sp[o]))
     IN  /\ SetHeap(r.heap)
         /\ sp' = [sp EXCEPT ![s] = Live(r.self)]
  /\ last' = Log(T, "shared_convert", s, o, 0, <<>>)
  /\ UNCHANGED running
  /\ UNCHANGED wp

\* s = o;  (s and o may be the same variable)
SharedCopyAssign(s, o, T) ==
  /\ sp[s].live /\ sp[o].live
  /\ LET r == shared_copy_assign(Heap, Val(sp[s]), Val(sp[o]))
     IN  /\ SetHeap(r.heap)
         /\ sp' = [sp EXCEPT ![s] = Live(r.self)]
  /\ last' = Log(T, "shared_copy_assign", s, o, 0, <<>>)
  /\ UNCHANGED running
  /\ UNCHANGED wp

\* s = std::move(o);  (s and o may be the same variable)
SharedMoveAssign(s, o, T) ==
  /\ sp[s].live /\ sp[o].live
  /\ LET r == shared_move_assign(Heap, Val(sp[s]), Val(sp[o]), s = o)
     IN  /\ SetHeap(r.heap)
         /\ sp' = [sp EXCEPT ![o] = Live(r.other), ![s] = Live(r.self)]
  /\ last' = Log(T, "shared_move_assign", s, o, 0, <<>>)
  /\ UNCHANGED running
  /\ UNCHANGED wp

\* s.reset();
SharedReset(s, T) ==
  /\ sp[s].live
  /\ LET r == shared_reset(Heap, Val(sp[s]))
     IN  /\ SetHeap(r.heap)
         /\ sp' = [sp EXCEPT ![s] = Live(r.self)]
  /\ last' = Log(T, "shared_reset", s, 0, 0, <<>>)
  /\ UNCHANGED running
  /\ UNCHANGED wp

\* s.reset(p [, deleter]);  *this = std::move(shared_ptr<Y>(p, deleter))
SharedResetPtr(s, p, T) ==
  /\ sp[s].live
  /\ HasFreeBlock(Heap)
  /\ p = PayloadAddr(NextBlock(Heap))
  /\ LET r == shared_reset_ptr(Heap, Val(sp[s]), NextBlock(Heap), p)
     IN  /\ SetHeap(r.heap)
         /\ sp' = [sp EXCEPT ![s] = Live(r.self)]
         /\ last' = Log(T, "shared_reset_ptr", s, 0, p, r.cleaned)
  /\ UNCHANGED running
  /\ UNCHANGED wp

\* s.reset(p [, deleter]);  with the temporary's construction throwing
SharedResetPtrThrow(s, p, T) ==
  /\ sp[s].live
  /\ HasFreeBlock(Heap)
  /\ p = PayloadAddr(NextBlock(Heap))
  /\ LET r == shared_reset_ptr_throw(Heap, Val(sp[s]), p)
     IN  /\ SetHeap(r.heap)
         /\ sp' = [sp EXCEPT ![s] = Live(r.self)]
         /\ last' = Log(T, "shared_reset_ptr_throw", s, 0, p, r.cleaned)
  /\ UNCHANGED running
  /\ UNCHANGED wp

\* s.swap(o);
SharedSwap(s, o, T) ==
  /\ sp[s].live /\ sp[o].live
  /\ LET r == shared_swap(Val(sp[s]), Val(sp[o]))
     IN  sp' = [sp EXCEPT ![o] = Live(r.other), ![s] = Live(r.self)]
  /\ last' = Log(T, "shared_swap", s, o, 0, <<>>)
  /\ UNCHANGED running
  /\ UNCHANGED <<heapvars, wp>>

\* s goes out of scope
SharedDtor(s, T) ==
  /\ sp[s].live
  /\ SetHeap(shared_dtor(Heap, Val(sp[s])))
  /\ sp' = [sp EXCEPT ![s] = Dead]
  /\ last' = Log(T, "shared_dtor", s, 0, 0, <<>>)
  /\ UNCHANGED running
  /\ UNCHANGED wp

\* weak_ptr<T> w;
WeakDefaultCtor(w, T) ==
  /\ ~wp[w].live
  /\ wp' = [wp EXCEPT ![w] = Live(weak_default)]
  /\ last' = Log(T, "weak_default", w, 0, 0, <<>>)
  /\ UNCHANGED running
  /\ UNCHANGED <<heapvars, sp>>

\* weak_ptr<T> w(s);
WeakFromShared(w, s, T) ==
  /\ ~wp[w].live /\ sp[s].live
  /\ LET r == weak_from_shared(Heap, Val(sp[s]))
     IN  /\ SetHeap(r.heap)
         /\ wp' = [wp EXCEPT ![w] = Live(r.self)]
  /\ last' = Log(T, "weak_from_shared", w, s, 0, <<>>)
  /\ UNCHANGED running
  /\ UNCHANGED sp

\* weak_ptr<T> w(o);
WeakCopyCtor(w, o, T) ==
  /\ ~wp[w].live /\ wp[o].live
  /\ LET r == weak_copy_ctor(Heap, Val(wp[o]))
     IN  /\ SetHeap(r.heap)
         /\ wp' = [wp EXCEPT ![w] = Live(r.self)]
  /\ last' = Log(T, "weak_copy", w, o, 0, <<>>)
  /\ UNCHANGED running
  /\ UNCHANGED sp

\* weak_ptr<T> w(std::move(o));
WeakMoveCtor(w, o, T) ==
  /\ ~wp[w].live /\ wp[o].live
  /\ LET r == weak_move_ctor(Heap, Val(wp[o]))
     IN  /\ SetHeap(r.heap)
         /\ wp' = [wp EXCEPT ![w] = Live(r.self), ![o] = Live(r.other)]
  /\ last' = Log(T, "weak_move", w, o, 0, <<>>)
  /\ UNCHANGED running
  /\ UNCHANGED sp

\* w = std::move(o);
WeakMoveAssign(w, o, T) ==
  /\ wp[w].live /\ wp[o].live
  /\ LET r == weak_move_assign(Heap, Val(wp[w]), Val(wp[o]), w = o)
     IN  /\ SetHeap(r.heap)
         /\ wp' = [wp EXCEPT ![o] = Live(r.other), ![w] = Live(r.self)]
  /\ last' = Log(T, "weak_move_assign", w, o, 0, <<>>)
  /\ UNCHANGED running
  /\ UNCHANGED sp

\* w = o;
WeakCopyAssign(w, o, T) ==
  /\ wp[w].live /\ wp[o].live
  /\ LET r == weak_copy_assign(Heap, Val(wp[w]), Val(wp[o]))
     IN  /\ SetHeap(r.heap)
         /\ wp' = [wp EXCEPT ![w] = Live(r.self)]
  /\ last' = Log(T, "weak_copy_assign", w, o, 0, <<>>)
  /\ UNCHANGED running
  /\ UNCHANGED sp

\* w = s;
WeakAssignShared(w, s, T) ==
  /\ wp[w].live /\ sp[s].live
  /\ LET r == weak_assign_shared(Heap, Val(wp[w]), Val(sp[s]))
     IN  /\ SetHeap(r.heap)
         /\ wp' = [wp EXCEPT ![w] = Live(r.self)]
  /\ last' = Log(T, "weak_assign_shared", w, s, 0, <<>>)
  /\ UNCHANGED running
  /\ UNCHANGED sp

\* shared_ptr<T> s = w.lock();
WeakLock(w, s, T) ==
  /\ wp[w].live /\ ~sp[s].live
  /\ LET r == weak_lock(Heap, Val(wp[w]))
     IN  /\ SetHeap(r.heap)
         /\ sp' = [sp EXCEPT ![s] = Live(r.self)]
  /\ last' = Log(T, "weak_lock", s, w, 0, <<>>)
  /\ UNCHANGED running
  /\ UNCHANGED wp

\* w.swap(o);
WeakSwap(w, o, T) ==
  /\ wp[w].live /\ wp[o].live
  /\ LET r == weak_swap(Val(wp[w]), Val(wp[o]))
     IN  wp' = [wp EXCEPT ![o] = Live(r.other), ![w] = Live(r.self)]
  /\ last' = Log(T, "weak_swap", w, o, 0, <<>>)
  /\ UNCHANGED running
  /\ UNCHANGED <<heapvars, sp>>

\* w goes out of scope
WeakDtor(w, T) ==
  /\ wp[w].live
  /\ SetHeap(weak_dtor(Heap, Val(wp[w])))
  /\ wp' = [wp EXCEPT ![w] = Dead]
  /\ last' = Log(T, "weak_dtor", w, 0, 0, <<>>)
  /\ UNCHANGED running
  /\ UNCHANGED sp

Next(T) ==
  \/ \E s \in SharedSlots : SharedDefaultCtor(s, T)
  \/ \E s \in SharedSlots, p \in Ptrs : SharedFromRaw(s, p, T)
  \/ \E s \in SharedSlots, p \in Ptrs : SharedFromRawThrow(s, p, T)
  \/ \E s \in SharedSlots : MakeShared(s, T)
  \/ \E s, o \in SharedSlots : SharedCopyCtor(s, o, T)
  \/ \E s, o \in SharedSlots : SharedMoveCtor(s, o, T)
  \/ \E s, o \in SharedSlots, q \in Ptrs : SharedAliasCtor(s, o, q, T)
  \/ \E s, o \in SharedSlots : SharedConvertCtor(s, o, T)
  \/ \E s, o \in SharedSlots : SharedCopyAssign(s, o, T)
  \/ \E s, o \in SharedSlots : SharedMoveAssign(s, o, T)
  \/ \E s \in SharedSlots : SharedReset(s, T)
  \/ \E s \in SharedSlots, p \in Ptrs : SharedResetPtr(s, p, T)
  \/ \E s \in SharedSlots, p \in Ptrs : SharedResetPtrThrow(s, p, T)
  \/ \E s, o \in SharedSlots : SharedSwap(s, o, T)
  \/ \E s \in SharedSlots : SharedDtor(s, T)
  \/ \E w \in WeakSlots : WeakDefaultCtor(w, T)
  \/ \E w \in WeakSlots, s \in SharedSlots : WeakFromShared(w, s, T)
  \/ \E w, o \in WeakSlots : WeakCopyCtor(w, o, T)
  \/ \E w, o \in WeakSlots : WeakMoveCtor(w, o, T)
  \/ \E w, o \in WeakSlots : WeakMoveAssign(w, o, T)
  \/ \E w, o \in WeakSlots : WeakCopyAssign(w, o, T)
  \/ \E w \in WeakSlots, s \in SharedSlots : WeakAssignShared(w, s, T)
  \/ \E w \in WeakSlots, s \in SharedSlots : WeakLock(w, s, T)
  \/ \E w, o \in WeakSlots : WeakSwap(w, o, T)
  \/ \E w \in WeakSlots : WeakDtor(w, T)

\* The program, with `last` silent.
Spec == Init /\ [][Next({})]_vars

\* s.reset() releasing the last strong reference, up to the point where the
\* payload's destructor is running inside delete_data(): dec_strong() is
\* called before nullify(), so s still holds the block.  Only the first
\* destruction of a payload is followed in two steps.
SharedResetEnter(s, T) ==
  /\ running = NoRun
  /\ sp[s].live /\ sp[s].cb # NULL
  /\ strong_cnt[sp[s].cb] = 1
  /\ deleted[sp[s].cb] = 0
  /\ SetHeap(dec_strong_enter(Heap, sp[s].cb))
  /\ running' = [b |-> sp[s].cb, s |-> s,
                 obs0 |-> Cardinality({w \in WeakSlots :
                                         wp[w].live /\ wp[w].cb = sp[s].cb})]
  /\ last' = Log(T, "shared_reset_enter", s, 0, 0, <<>>)
  /\ UNCHANGED <<sp, wp>>

\* The payload's destructor returns: delete_data() completes, dec_strong()
\* gives up the weak share, and reset() nullifies the handle.
SharedResetLeave(T) ==
  /\ running # NoRun
  /\ SetHeap(dec_strong_leave(Heap, running.b))
  /\ sp' = [sp EXCEPT ![running.s] = Live(shared_nullify(Val(@)))]
  /\ running' = NoRun
  /\ last' = Log(T, "shared_reset_leave", running.s, 0, 0, <<>>)
  /\ UNCHANGED wp

\* The program with a payload destructor that, while it runs, may destroy or
\* reassign observer handles, call lock(), and copy the handle being reset.
NextDtor(T) ==
  \/ running = NoRun /\ Next(T)
  \/ \E s \in SharedSlots : SharedResetEnter(s, T)
  \/ running # NoRun /\ \E w \in WeakSlots : WeakDtor(w, T)
  \/ running # NoRun /\ \E w, o \in WeakSlots : WeakCopyAssign(w, o, T)
  \/ running # NoRun /\ \E w \in WeakSlots, s \in SharedSlots : WeakLock(w, s, T)
  \/ running # NoRun /\ \E s \in SharedSlots : SharedCopyCtor(s, running.s, T)
  \/ SharedResetLeave(T)

SpecDtor == Init /\ [][NextDtor({})]_vars

\* The same program with `last` recording the operations a claim is about.
LockOps == {"weak_lock"}
SpecLock == Init /\ [][Next(LockOps)]_vars

AliasOps == {"shared_alias"}
SpecAlias == Init /\ [][Next(AliasOps)]_vars

MoveOps == {"shared_copy_assign", "shared_move_assign", "shared_move",
            "weak_move", "weak_move_assign"}
SpecMove == Init /\ [][Next(MoveOps)]_vars

WeakOps == {"weak_default", "weak_from_shared", "weak_copy", "weak_move",
            "weak_move_assign", "weak_copy_assign", "weak_assign_shared",
            "weak_swap", "weak_dtor"}
SpecWeak == Init /\ [][Next(WeakOps)]_vars

OwnerOps == {"shared_from_raw", "shared_from_raw_throw", "shared_reset",
             "shared_dtor", "shared_reset_ptr", "shared_reset_ptr_throw"}
SpecOwner == Init /\ [][Next(OwnerOps)]_vars

\* ------------------------------------------------------------- claims
Owners(b) == {s \in SharedSlots : sp[s].live /\ sp[s].cb = b}
Observers(b) == {w \in WeakSlots : wp[w].live /\ wp[w].cb = b}
Created(b) == bstate[b] # "unalloc"

\* C1: for every control block, delete_data has run at most once, has not run
\* while an owning handle references the block, and has run exactly once when
\* no owning handle references it any more.
C1_PayloadDestroyedExactlyOnce ==
  \A b \in Blocks : Created(b) =>
    /\ deleted[b] <= 1
    /\ Owners(b) # {} => deleted[b] = 0
    /\ Owners(b) = {} => deleted[b] = 1

\* Both kinds of block have lost their last owner and destroyed their payload.
C1_Witness ==
  \E b, c \in Blocks :
    /\ kind[b] = "ptr" /\ kind[c] = "obj"
    /\ Owners(b) = {} /\ Owners(c) = {}
    /\ deleted[b] = 1 /\ deleted[c] = 1

\* C2: the control block is deallocated exactly once, after delete_data has
\* run for it, never while a handle of either kind references it, and by the
\* operation that releases the last handle (no block stays allocated with no
\* handle referencing it).
C2_BlockFreedExactlyOnce ==
  \A b \in Blocks : Created(b) =>
    /\ freed[b] <= 1
    /\ bstate[b] = "freed" <=> freed[b] = 1
    /\ freed[b] = 1 => freed_after[b] = 1 /\ deleted[b] = 1
    /\ Owners(b) \cup Observers(b) # {} => bstate[b] = "alloc"
    /\ Owners(b) \cup Observers(b) = {} => bstate[b] = "freed"

\* A block that observers kept allocated after its payload was destroyed has
\* been freed, and another block is still referenced.
C2_Witness ==
  \E b, c \in Blocks :
    /\ bstate[b] = "freed" /\ freed[b] = 1 /\ freed_after[b] = 1
    /\ bstate[c] = "alloc" /\ Observers(c) # {} /\ Owners(c) = {}

\* C3: observers do not extend the payload's lifetime: while observers
\* reference a block, the payload is destroyed exactly when no owning handle
\* is left, and the block itself stays allocated.
C3_ObserversDoNotOwn ==
  \A b \in Blocks : Observers(b) # {} =>
    /\ bstate[b] = "alloc" /\ freed[b] = 0
    /\ Owners(b) = {} <=> deleted[b] = 1
    /\ Owners(b) = {} <=> strong_cnt[b] = 0

\* Two observers on a block whose payload is gone and which is still allocated.
C3_Witness ==
  \E b \in Blocks :
    /\ Cardinality(Observers(b)) >= 2
    /\ Owners(b) = {} /\ deleted[b] = 1 /\ bstate[b] = "alloc"

\* C4: use_count() of a live owning handle is the number of live owning
\* handles that reference its block, and 0 for a handle without a block.
C4_UseCountIsOwners ==
  \A s \in SharedSlots : sp[s].live =>
    use_count(Heap, Val(sp[s])) =
      IF sp[s].cb = NULL THEN 0 ELSE Cardinality(Owners(sp[s].cb))

\* Two owners share a block while another handle is empty or absent.
C4_Witness ==
  \E s, o \in SharedSlots :
    /\ s # o /\ sp[s].live /\ sp[o].live
    /\ sp[s].cb # NULL /\ sp[s].cb = sp[o].cb
    /\ use_count(Heap, Val(sp[s])) = 2

\* C6: every allocated control block has
\* weak_cnt = strong_cnt + (live observer handles on it), so weak >= strong.
C6_WeakCountInvariant ==
  \A b \in Blocks : bstate[b] = "alloc" =>
    /\ weak_cnt[b] = strong_cnt[b] + Cardinality(Observers(b))
    /\ weak_cnt[b] >= strong_cnt[b]

\* A block with owners and observers at once.
C6_Witness ==
  \E b \in Blocks :
    /\ bstate[b] = "alloc"
    /\ Cardinality(Owners(b)) = 2 /\ Cardinality(Observers(b)) = 2
    /\ weak_cnt[b] = 4

\* C7: in every live owning handle the control-block pointer is null exactly
\* when the payload pointer is null.
C7_BothNullOrNeither ==
  \A s \in SharedSlots : sp[s].live => (sp[s].cb = NULL <=> sp[s].ptr = NULL)

\* What a step leaves of the counters: every block's counters as before, except
\* that block c (if any) has lost ds strong and dw weak references.
CountsLose(c, ds, dw) ==
  /\ \A b \in Blocks :
       /\ strong_cnt'[b] = strong_cnt[b] - (IF b = c THEN ds ELSE 0)
       /\ weak_cnt'[b] = weak_cnt[b] - (IF b = c THEN dw ELSE 0)
CountsSame == CountsLose(NULL, 0, 0)

\* C5: w.lock() returns a handle on w's block, with the strong count raised
\* by exactly one, if and only if an owning handle of that block is live at
\* the call; otherwise (w has no block, or the last owner is gone) it returns
\* an empty handle and changes no counter.
C5_LockIffOwner ==
  [][last'.op = "weak_lock" =>
      LET w == last'.src
          s == last'.dst
          b == wp[w].cb
      IN  IF b # NULL /\ Owners(b) # {}
            THEN /\ sp'[s] = Live(Handle(b, wp[w].ptr))
                 /\ CountsLose(b, -1, -1)
                 /\ deleted'[b] = 0
            ELSE /\ sp'[s] = Live(EmptyHandle)
                 /\ CountsSame
                 /\ deleted' = deleted
    ]_vars

\* lock() has just returned an empty handle for an observer whose block has
\* lost its last owner.
C5_Witness ==
  /\ last.op = "weak_lock"
  /\ sp[last.dst].live /\ sp[last.dst].cb = NULL
  /\ wp[last.src].cb # NULL
  /\ Owners(wp[last.src].cb) = {} /\ deleted[wp[last.src].cb] = 1

\* C8: the aliasing constructor, from p and q, gives a handle with get() = q
\* on p's block, creates no block and raises that block's strong count by
\* exactly one; handles on one block report one use_count(); and the payload of
\* a block is not destroyed while an aliasing handle on it is live.
C8_AliasStep ==
  last'.op = "shared_alias" =>
    LET s == last'.dst
        o == last'.src
        q == last'.arg
    IN  /\ sp'[s].live /\ shared_get(sp'[s]) = q
        /\ sp'[s].cb = sp[o].cb
        /\ sp'[o] = sp[o]
        /\ bstate' = bstate
        /\ CountsLose(sp[o].cb, -1, -1)
        /\ use_count(Heap', Val(sp'[s])) = use_count(Heap, Val(sp[o])) +
             (IF sp[o].cb # NULL THEN 1 ELSE 0)

C8_AliasKeepsAlive ==
  \A s \in SharedSlots :
    (sp[s].live /\ sp[s].cb # NULL /\ sp[s].ptr # PayloadAddr(sp[s].cb)) =>
      /\ bstate[sp[s].cb] = "alloc" /\ deleted[sp[s].cb] = 0
      /\ \A o \in Owners(sp[s].cb) :
           use_count(Heap, Val(sp[o])) = use_count(Heap, Val(sp[s]))

\* C8: every aliasing construction does as C8_AliasStep says, and every
\* aliasing handle keeps its block's payload alive (C8_AliasKeepsAlive).
C8_Aliasing == [][C8_AliasStep]_vars /\ []C8_AliasKeepsAlive

\* An aliasing handle is the only owner left of a block whose payload is alive.
C8_Witness ==
  \E s \in SharedSlots :
    /\ sp[s].live /\ sp[s].cb # NULL /\ sp[s].ptr = AliasAddr
    /\ Owners(sp[s].cb) = {s}
    /\ use_count(Heap, Val(sp[s])) = 1 /\ deleted[sp[s].cb] = 0

\* C9: h = h and h = std::move(h) leave h's two pointers and every block's
\* counters as they were and destroy nothing, also when h is the only owner.
C9_SelfAssignIsNoOp ==
  [][(last'.op \in {"shared_copy_assign", "shared_move_assign"}
       /\ last'.dst = last'.src) =>
      /\ sp' = sp
      /\ CountsSame
      /\ deleted' = deleted /\ bstate' = bstate /\ freed' = freed
    ]_vars

\* The sole owner of a block has just been move-assigned to itself.
C9_Witness ==
  /\ last.op = "shared_move_assign" /\ last.dst = last.src
  /\ sp[last.dst].cb # NULL
  /\ use_count(Heap, Val(sp[last.dst])) = 1
  /\ deleted[sp[last.dst].cb] = 0

\* C10: a move hands over the (cb, ptr) pair and empties the source without
\* changing the counters of the block handed over; a move assignment
\* h = std::move(g), h and g distinct, also takes from the block h held one
\* reference of h's kind (one strong and its weak share, or one weak).
C10_MoveTransfers ==
  [][/\ last'.op = "shared_move" =>
          /\ sp'[last'.dst] = Live(Val(sp[last'.src]))
          /\ sp'[last'.src] = Live(EmptyHandle)
          /\ CountsSame
          /\ deleted' = deleted /\ bstate' = bstate
     /\ last'.op = "weak_move" =>
          /\ wp'[last'.dst] = Live(Val(wp[last'.src]))
          /\ wp'[last'.src] = Live(EmptyHandle)
          /\ CountsSame
          /\ deleted' = deleted /\ bstate' = bstate
     /\ (last'.op = "shared_move_assign" /\ last'.dst # last'.src) =>
          /\ sp'[last'.dst] = Live(Val(sp[last'.src]))
          /\ sp'[last'.src] = Live(EmptyHandle)
          /\ CountsLose(sp[last'.dst].cb, 1, 1)
     /\ (last'.op = "weak_move_assign" /\ last'.dst # last'.src) =>
          /\ wp'[last'.dst] = Live(Val(wp[last'.src]))
          /\ wp'[last'.src] = Live(EmptyHandle)
          /\ CountsLose(wp[last'.dst].cb, 0, 1)
    ]_vars

\* h = std::move(g) has just handed g's block to h; the block h held before
\* lost its last reference and is gone.
C10_Witness ==
  /\ last.op = "shared_move_assign" /\ last.dst # last.src
  /\ sp[last.dst].cb # NULL /\ sp[last.src].cb = NULL
  /\ use_count(Heap, Val(sp[last.dst])) = 1
  /\ \E b \in Blocks : b # sp[last.dst].cb /\ bstate[b] = "freed"

\* C11: creating, copying, assigning, swapping and destroying observer
\* handles leaves every strong count (hence every use_count()) and every
\* owning handle as it was, never runs delete_data, and changes a weak
\* count by at most the observers gained or lost on that block.
C11_ObserverOpsTouchOnlyWeak ==
  [][last'.op \in WeakOps =>
       /\ strong_cnt' = strong_cnt
       /\ sp' = sp
       /\ \A s \in SharedSlots :
            sp[s].live => use_count(Heap', Val(sp'[s])) = use_count(Heap, Val(sp[s]))
       /\ deleted' = deleted
       /\ deleter_args' = deleter_args
       /\ \A b \in Blocks :
            bstate[b] = "alloc" /\ bstate'[b] = "alloc" =>
              weak_cnt'[b] - weak_cnt[b]
                = Cardinality({w \in WeakSlots : wp'[w].live /\ wp'[w].cb = b})
                  - Cardinality({w \in WeakSlots : wp[w].live /\ wp[w].cb = b})]_vars

\* The last observer of an expired block has just been destroyed: the block
\* is gone and its payload was destroyed once, by the owners.
C11_Witness ==
  /\ last.op = "weak_dtor"
  /\ ~wp[last.dst].live
  /\ \E b \in Blocks : bstate[b] = "freed" /\ deleted[b] = 1 /\ freed_after[b] = 1
  /\ \E b \in Blocks : bstate[b] = "alloc" /\ strong_cnt[b] = 1 /\ weak_cnt[b] = 2

\* C12: when building the ptr_block fails inside shared_ptr(p, deleter) the
\* deleter is called exactly once, on p, no control block is allocated or
\* changed and no handle is constructed; when it succeeds no deleter is
\* called during the construction.
C12_RawCtorCleansUpOnThrow ==
  [][/\ last'.op = "shared_from_raw_throw" =>
          /\ last'.cleaned = <<last'.arg>>
          /\ UNCHANGED heapvars
          /\ sp' = sp /\ ~sp'[last'.dst].live
          /\ bstate'[NextBlock(Heap)] = "unalloc"
     /\ last'.op = "shared_from_raw" =>
          /\ last'.cleaned = <<>>
          /\ deleter_args' = deleter_args
          /\ deleted' = deleted
          /\ sp'[last'.dst] = Live(Handle(NextBlock(Heap), last'.arg))
          /\ bstate'[NextBlock(Heap)] = "alloc"
    ]_vars

\* shared_ptr<T> s(p, deleter) has just thrown: the deleter ran on p, slot s
\* is still not constructed and the block that would have held p does not
\* exist.
C12_Witness ==
  /\ last.op = "shared_from_raw_throw"
  /\ last.cleaned = <<last.arg>>
  /\ ~sp[last.dst].live
  /\ HasFreeBlock(Heap)
  /\ last.arg = PayloadAddr(NextBlock(Heap))
  /\ bstate[NextBlock(Heap)] = "unalloc"

\* The effect of giving up the reference held by owning slot s.
C13_Released(s) ==
  LET c == sp[s].cb IN
  /\ CountsLose(c, 1, 1)
  /\ \A b \in Blocks :
       deleted'[b] = deleted[b] + (IF b = c /\ strong_cnt[b] = 1 THEN 1 ELSE 0)
  /\ \A b \in Blocks :
       bstate'[b] = IF b = c /\ weak_cnt[b] = 1 THEN "freed" ELSE bstate[b]
  /\ c = NULL => UNCHANGED heapvars
  /\ \A o \in SharedSlots \ {s} : sp'[o] = sp[o]
  /\ wp' = wp

\* C13: reset() releases exactly one strong reference of the handle's block
\* (destroying the payload iff it was the last one) and leaves the handle
\* empty; the destructor has the same effect on the block; reset() of an
\* empty handle changes nothing.
C13_ResetReleasesOne ==
  [][/\ last'.op = "shared_reset" =>
          /\ C13_Released(last'.dst)
          /\ sp'[last'.dst] = Live(EmptyHandle)
     /\ last'.op = "shared_dtor" =>
          /\ C13_Released(last'.dst)
          /\ sp'[last'.dst] = Dead
    ]_vars

\* s.reset() has just released the last strong reference of a block that an
\* observer keeps allocated: payload destroyed, s empty.
C13_Witness ==
  /\ last.op = "shared_reset"
  /\ sp[last.dst] = Live(EmptyHandle)
  /\ \E b \in Blocks : /\ bstate[b] = "alloc"
                       /\ strong_cnt[b] = 0
                       /\ deleted[b] = 1
                       /\ weak_cnt[b] = 1

\* C14: for a block made from a raw pointer, the stored deleter has not been
\* called while an owner remains; once the last owner is gone it has been
\* called exactly once, with the pointer the block was made from, and the
\* block's stored pointer is null -- so a further delete_data could not hand
\* that pointer to the deleter again.
C14_DeleterOnceWithOriginalPointer ==
  \A b \in Blocks :
    kind[b] = "ptr" =>
      /\ Len(deleter_args[b]) = deleted[b]
      /\ Owners(b) # {} => /\ deleter_args[b] = <<>>
                           /\ bptr[b] = PayloadAddr(b)
      /\ Owners(b) = {} => /\ deleter_args[b] = <<PayloadAddr(b)>>
                           /\ bptr[b] = NULL
                           /\ ptr_delete_data(Heap, b).deleter_args[b]
                                = <<PayloadAddr(b), NULL>>

\* A raw-pointer block whose owners are gone while an observer remains: its
\* deleter has run, on the original pointer.
C14_Witness ==
  \E b \in Blocks :
    /\ kind[b] = "ptr"
    /\ bstate[b] = "alloc"
    /\ Owners(b) = {} /\ Observers(b) # {}
    /\ deleter_args[b] = <<PayloadAddr(b)>>
    /\ bptr[b] = NULL

\* C15: while delete_data is running inside dec_strong (strong count already
\* 0) the control block is allocated and its weak count is at least 1,
\* whatever observer handles the payload's destructor has released: the
\* block is freed only by the dec_weak that follows delete_data.
C15_BlockOutlivesDeleteData ==
  running # NoRun =>
    /\ bstate[running.b] = "alloc"
    /\ freed[running.b] = 0
    /\ weak_cnt[running.b] >= 1
    /\ weak_cnt[running.b] >= 1 + Cardinality(Observers(running.b))

\* The payload's destructor is running and has released every observer the
\* block had when it was entered; the block is still allocated.
C15_Witness ==
  /\ running # NoRun
  /\ running.obs0 = NumWeak
  /\ Observers(running.b) = {}
  /\ weak_cnt[running.b] = 1
  /\ bstate[running.b] = "alloc"

\* C19: once a block's strong count has reached 0 no operation makes it
\* positive again, operations called from the payload's destructor on the
\* handle being reset included.
C19_StrongZeroIsAbsorbing ==
  [][\A b \in Blocks :
       (Created(b) /\ strong_cnt[b] = 0) => strong_cnt'[b] = 0]_vars

\* What a client can observe of the heap: the counters behind use_count()
\* and lock(), which blocks exist, and the payload-destruction and
\* block-deallocation events so far.
C16_Observable(h) ==
  [strong_cnt |-> h.strong_cnt, weak_cnt |-> h.weak_cnt, bstate |-> h.bstate,
   deleted |-> h.deleted, freed |-> h.freed]

\* The heap in which block b is of the other variant and has the same
\* history: a ptr_block holds the payload's address until its deleter has
\* run, an obj_block has no pointer field and no stored deleter.
C16_OtherVariant(h, b) ==
  IF h.kind[b] = "ptr"
  THEN [h EXCEPT !.kind[b] = "obj", !.bptr[b] = NULL, !.deleter_args[b] = <<>>]
  ELSE [h EXCEPT !.kind[b] = "ptr",
                 !.bptr[b] = IF h.deleted[b] = 0 THEN PayloadAddr(b) ELSE NULL,
                 !.deleter_args[b] = IF h.deleted[b] = 0 THEN <<>>
                                     ELSE <<PayloadAddr(b)>>]

\* C16: an obj_block and a ptr_block with a destroy-only deleter cannot be
\* told apart.  make_shared and shared_ptr(new T) on the same heap give
\* handles with the same use_count() and the same observable heap; and in
\* every reachable state, for every allocated block, each handle operation
\* that reaches the block (use_count, copy, release, observer creation,
\* lock, observer release) gives the same result and the same observable
\* heap when the block is replaced by its other variant.  Equal observations
\* after every operation sequence follow by induction on the sequence.
C16_VariantsEquivalent ==
  /\ HasFreeBlock(Heap) =>
       LET nb == NextBlock(Heap)
           m == make_shared(Heap, nb)
           r == shared_from_raw(Heap, nb, PayloadAddr(nb))
       IN  /\ C16_Observable(m.heap) = C16_Observable(r.heap)
           /\ m.self = r.self
           /\ use_count(m.heap, m.self) = use_count(r.heap, r.self)
           /\ C16_OtherVariant(m.heap, nb) = r.heap
  /\ \A b \in Blocks :
       bstate[b] = "alloc" =>
         LET g == C16_OtherVariant(Heap, b) IN
         /\ C16_Observable(g) = C16_Observable(Heap)
         /\ C16_OtherVariant(g, b) = Heap
         /\ \A s \in Owners(b) :
              LET x == Val(sp[s]) IN
              /\ use_count(g, x) = use_count(Heap, x)
              /\ C16_Observable(shared_reset(g, x).heap)
                   = C16_Observable(shared_reset(Heap, x).heap)
              /\ C16_OtherVariant(shared_reset(g, x).heap, b)
                   = shared_reset(Heap, x).heap
              /\ C16_Observable(shared_copy_ctor(g, x).heap)
                   = C16_Observable(shared_copy_ctor(Heap, x).heap)
              /\ C16_Observable(weak_from_shared(g, x).heap)
                   = C16_Observable(weak_from_shared(Heap, x).heap)
         /\ \A w \in Observers(b) :
              LET y == Val(wp[w]) IN
              /\ weak_lock(g, y).self = weak_lock(Heap, y).self
              /\ C16_Observable(weak_lock(g, y).heap)
                   = C16_Observable(weak_lock(Heap, y).heap)
              /\ C16_Observable(weak_dtor(g, y))
                   = C16_Observable(weak_dtor(Heap, y))
              /\ C16_OtherVariant(weak_dtor(g, y), b) = weak_dtor(Heap, y)

\* One block of each variant, each with a single owner (whose release
\* destroys the payload) and an observer.
C16_Witness ==
  \E b, c \in Blocks :
    /\ kind[b] = "ptr" /\ kind[c] = "obj"
    /\ bstate[b] = "alloc" /\ bstate[c] = "alloc"
    /\ strong_cnt[b] = 1 /\ strong_cnt[c] = 1
    /\ Observers(b) # {} /\ Observers(c) # {}

\* C17 as stated: a control block of either variant has strong count 1 and
\* weak count 1 as soon as its constructor has run.
C17_ConstructionRegistersOne ==
  HasFreeBlock(Heap) =>
    LET nb == NextBlock(Heap)
        hp == new_ptr_block(Heap, nb, PayloadAddr(nb))
        ho == new_obj_block(Heap, nb)
    IN  /\ get_strong(hp, nb) = 1 /\ hp.weak_cnt[nb] = 1
        /\ get_strong(ho, nb) = 1 /\ ho.weak_cnt[nb] = 1

\* C17, amended: the ptr_block constructor registers one strong reference
\* (strong 1, weak 1); the obj_block constructor registers none (strong 0,
\* weak 0) and make_shared's handle constructor performs the increment; the
\* handle returned by either has use_count() = 1 and its block weak count 1.
C17_ReturnedHandleCountsOne ==
  HasFreeBlock(Heap) =>
    LET nb == NextBlock(Heap)
        hp == new_ptr_block(Heap, nb, PayloadAddr(nb))
        ho == new_obj_block(Heap, nb)
        r == shared_from_raw(Heap, nb, PayloadAddr(nb))
        m == make_shared(Heap, nb)
    IN  /\ get_strong(hp, nb) = 1 /\ hp.weak_cnt[nb] = 1
        /\ get_strong(ho, nb) = 0 /\ ho.weak_cnt[nb] = 0
        /\ r.heap = hp
        /\ use_count(r.heap, r.self) = 1 /\ r.heap.weak_cnt[nb] = 1
        /\ use_count(m.heap, m.self) = 1 /\ m.heap.weak_cnt[nb] = 1

\* A factory-made block right after make_shared, with room for another
\* block to be constructed.
C17_Witness ==
  /\ HasFreeBlock(Heap)
  /\ \E b \in Blocks : /\ kind[b] = "obj" /\ bstate[b] = "alloc"
                       /\ strong_cnt[b] = 1 /\ weak_cnt[b] = 1
                       /\ Cardinality(Owners(b)) = 1 /\ Observers(b) = {}

\* C18: s.reset(p, deleter) leaves s holding a new block with use_count() 1
\* and get() = p, the block s held before having lost exactly one strong
\* reference (and been destroyed iff that was the last); no deleter runs on
\* p.  When creating the new block fails, the deleter runs once on p and s
\* still holds its previous block, every count and every payload untouched.
C18_ResetPtr ==
  [][/\ last'.op = "shared_reset_ptr" =>
          LET s == last'.dst
              c == sp[s].cb
              nb == NextBlock(Heap)
          IN  /\ sp'[s] = Live(Handle(nb, last'.arg))
              /\ shared_get(Val(sp'[s])) = last'.arg
              /\ use_count(Heap', Val(sp'[s])) = 1
              /\ bstate[nb] = "unalloc" /\ bstate'[nb] = "alloc"
              /\ strong_cnt'[nb] = 1 /\ weak_cnt'[nb] = 1
              /\ \A b \in Blocks \ {nb} :
                   /\ strong_cnt'[b] = strong_cnt[b] - (IF b = c THEN 1 ELSE 0)
                   /\ weak_cnt'[b] = weak_cnt[b] - (IF b = c THEN 1 ELSE 0)
                   /\ deleted'[b] = deleted[b]
                        + (IF b = c /\ strong_cnt[b] = 1 THEN 1 ELSE 0)
              /\ deleted'[nb] = 0
              /\ last'.cleaned = <<>>
              /\ \A o \in SharedSlots \ {s} : sp'[o] = sp[o]
     /\ last'.op = "shared_reset_ptr_throw" =>
          /\ last'.cleaned = <<last'.arg>>
          /\ sp' = sp /\ wp' = wp
          /\ UNCHANGED heapvars
    ]_vars

\* s.reset(p, deleter) has just failed while s was the only owner of a
\* block: s still owns it, its payload is intact, and the deleter ran on p.
C18_Witness ==
  /\ last.op = "shared_reset_ptr_throw"
  /\ last.cleaned = <<last.arg>>
  /\ sp[last.dst].live /\ sp[last.dst].cb # NULL
  /\ strong_cnt[sp[last.dst].cb] = 1
  /\ deleted[sp[last.dst].cb] = 0
  /\ bstate[sp[last.dst].cb] = "alloc"

\* C20: no counter is ever decremented while it is 0, so no counter wraps:
\* every strong count is at most the number of owning handles that can
\* exist, every weak count at most the number of handles that can exist,
\* and a strong count never exceeds its block's weak count.
C20_CountersNeverWrap ==
  /\ ~wrapped
  /\ \A b \in Blocks :
       /\ strong_cnt[b] <= NumShared
       /\ weak_cnt[b] <= NumShared + NumWeak
       /\ strong_cnt[b] <= weak_cnt[b]

\* Both counters of a block have come back down to 0 (the block is freed)
\* and another block has strong count 0 with an observer left.
C20_Witness ==
  /\ ~wrapped
  /\ \E b \in Blocks : /\ bstate[b] = "freed"
                       /\ strong_cnt[b] = 0 /\ weak_cnt[b] = 0
                       /\ deleted[b] = 1 /\ freed[b] = 1
  /\ \E b \in Blocks : /\ bstate[b] = "alloc"
                       /\ strong_cnt[b] = 0 /\ weak_cnt[b] = 1

====
